---- MODULE Spec2Model ----
(***************************************************************************)
(* A model of utils/toml2dot.py: the Model class that turns a TOML         *)
(* document into a map of Nodes and Arcs and renders it as dot text.       *)
(*                                                                         *)
(* Strings that the code takes apart (table paths) are sequences of        *)
(* one-character strings, so that split, join, rpartition, count and       *)
(* startswith are computed as Python computes them.  Python's None is the  *)
(* one-element sequence <<"None">>, which no path can equal.               *)
(*                                                                         *)
(* A run is main on one document: Model.tables, then the two loops of      *)
(* Model.nodes, one table a step, then one of the two writers.  An         *)
(* exception ends the run: `raised` names it and `pc` stays where it was   *)
(* raised.  Spec runs the documents of Docs, SpecOrder those of OrderDocs. *)
(***************************************************************************)
EXTENDS Naturals, Sequences, FiniteSets, TLC

\* The longest text checked: the number of table headers table_finder finds.
MaxTables == 3

None == <<"None">>
DOT == "."

----------------------------------------------------------------------------
(* str methods                                                             *)

\* the index of the first sep in s, or 0
RECURSIVE Find(_, _, _)
Find(s, sep, k) ==
    IF k > Len(s) THEN 0
    ELSE IF s[k] = sep THEN k
    ELSE Find(s, sep, k + 1)

\* the index of the last sep in s, or 0
RECURSIVE RFind(_, _, _)
RFind(s, sep, k) ==
    IF k = 0 THEN 0
    ELSE IF s[k] = sep THEN k
    ELSE RFind(s, sep, k - 1)

\* s.split(sep)
RECURSIVE Split(_, _)
Split(s, sep) ==
    LET k == Find(s, sep, 1)
    IN  IF k = 0 THEN <<s>>
        ELSE <<SubSeq(s, 1, k - 1)>> \o Split(SubSeq(s, k + 1, Len(s)), sep)

\* sep.join(parts)
RECURSIVE Join(_, _)
Join(parts, sep) ==
    IF Len(parts) = 0 THEN <<>>
    ELSE IF Len(parts) = 1 THEN parts[1]
    ELSE parts[1] \o <<sep>> \o Join(Tail(parts), sep)

\* s.rpartition(sep): <<head, sep, tail>>, or <<"", "", s>> without a sep
RPartition(s, sep) ==
    LET k == RFind(s, sep, Len(s))
    IN  IF k = 0 THEN << <<>>, <<>>, s >>
        ELSE << SubSeq(s, 1, k - 1), <<sep>>, SubSeq(s, k + 1, Len(s)) >>

\* s.count(ch)
Count(s, ch) == Cardinality({k \in 1..Len(s) : s[k] = ch})

\* s.startswith(p)
StartsWith(s, p) == Len(p) <= Len(s) /\ SubSeq(s, 1, Len(p)) = p

\* k in seq
Contains(seq, x) == \E k \in 1..Len(seq) : seq[k] = x

\* d.get(k, default) for a mapping d
Get(d, k, default) == IF k \in DOMAIN d THEN d[k] ELSE default

\* d[key] = ... on the key order of a dict: a new key goes last, a known
\* key keeps its place
DictSet(keys, key) == IF Contains(keys, key) THEN keys ELSE Append(keys, key)

----------------------------------------------------------------------------
(* The documents checked                                                   *)

nA   == <<"A">>
nAB  == <<"A", ".", "B">>
nABC == <<"A", ".", "B", ".", "C">>
nC   == <<"C">>
nCBC == <<"C", ".", "B", ".", "C">>
nAe  == <<"A", ".", "e">>
nAf  == <<"A", ".", "f">>
nZe  == <<"Z", ".", "e">>
nP   == <<"P">>
nQ   == <<"Q">>

EmptyTable == [k \in {} |-> 0]
\* an `arcs` value from the document: a list, or a scalar with no append
ListOf(items) == [list |-> TRUE, items |-> items]
NotAList == [list |-> FALSE, items |-> <<>>]

\* A header the pattern finds in the text: its path, whether the document
\* holds a table there (a header inside a comment or a string declares
\* none), and the table's own keys.
Header(path, real, own) == [path |-> path, real |-> real, own |-> own]

Headers ==
    { Header(nA, TRUE, EmptyTable),
      Header(nA, TRUE, [arcs |-> NotAList]),
      Header(nA, TRUE, [arcs |-> ListOf(<< [raw |-> "x"] >>)]),
      Header(nAB, TRUE, EmptyTable),
      Header(nAB, TRUE, [parent |-> nQ]),
      Header(nABC, TRUE, EmptyTable),
      Header(nABC, TRUE, [name |-> nQ]),
      Header(nC, TRUE, EmptyTable),
      Header(nC, TRUE, [target |-> nA]),
      Header(nCBC, TRUE, EmptyTable),
      Header(nCBC, TRUE, [color |-> [r |-> 10, g |-> 20]]),
      Header(nAe, TRUE, [target |-> nC]),
      Header(nAe, TRUE, [target |-> nQ]),
      Header(nAe, TRUE, [source |-> nC]),
      Header(nAf, TRUE, [target |-> nA, label |-> <<"L">>,
                         color |-> [r |-> 10, g |-> 20, b |-> 30]]),
      Header(nZe, TRUE, [target |-> nA]),
      Header(nP, FALSE, EmptyTable) }

\* the texts of up to n headers among hs, no path twice
Texts(hs, n) ==
    UNION { { s \in [1..m -> hs] :
                \A j, k \in 1..m : j # k => s[j].path # s[k].path }
            : m \in 0..n }

Docs == Texts(Headers, MaxTables)

\* The documents on which the order of the headers is checked: longer
\* texts of fewer tables, with an undeclared ancestor (C.B), an arc table
\* above a node table, and a `parent` key.
MaxOrderTables == 4

OrderHeaders ==
    { Header(nA, TRUE, EmptyTable),
      Header(nAB, TRUE, [parent |-> nQ]),
      Header(nABC, TRUE, EmptyTable),
      Header(nC, TRUE, EmptyTable),
      Header(nC, TRUE, [target |-> nA]),
      Header(nCBC, TRUE, EmptyTable) }

OrderDocs == Texts(OrderHeaders, MaxOrderTables)

VARIABLES
    text,     \* table_finder.findall(self.text): the header paths, in order
    data,     \* self.data: declared table path -> the table's own keys
    pc,       \* where the program is, or was when an exception ended it
    i,        \* the position of the loop under way
    tables,   \* Model.tables, being built: the keys, in insertion order
    rv,       \* Model.nodes, being built: the Nodes, in insertion order
    arcs,     \* the arcs dict of Model.nodes: its keys, in insertion order
    err,      \* sys.stderr: the diagnostics printed
    raised,   \* the exception that ended the program, or "none"
    writer,   \* main's writer: "none", "to_dot" or "to_cluster"
    stdout,   \* what main prints: the lines of the writer
    cache,    \* functools.cache of Model.nodes: Model instance -> node map
    reads,    \* how often self.nodes was read again after it returned
    peer,    \* a second Model, loaded from an independent document
    stack,    \* the frames of the subgraphs generators that are suspended
    yielded,    \* what subgraphs has yielded to to_cluster so far
    digraph   \* args.digraph, as the cluster writer under way was given it

cacheVars == <<cache, reads, peer>>
walkVars == <<stack, yielded, digraph>>
vars == <<text, data, pc, i, tables, rv, arcs, err, raised, writer, stdout,
          cacheVars, walkVars>>

----------------------------------------------------------------------------
(* The document: toml's nested mapping                                     *)

\* the document holds a mapping at `path`: a declared table, or a table a
\* declared one implies ([C.B.C] makes C and C.B)
IsMapping(d, path) ==
    \E n \in DOMAIN d : n = path \/ StartsWith(n, path \o <<DOT>>)

\* the keys of the builder whose value may be a sub-table with a header of
\* its own ([A.color]), as the characters of that header's last segment
KeyChars ==
    [ color  |-> <<"c", "o", "l", "o", "r">>,
      fill   |-> <<"f", "i", "l", "l">>,
      stroke |-> <<"s", "t", "r", "o", "k", "e">> ]

\* the mapping the walk reaches at `name`: the table's own keys, and its
\* sub-tables under the keys the builder reads
RECURSIVE Table(_, _)
Table(d, name) ==
    LET own == IF name \in DOMAIN d THEN d[name] ELSE EmptyTable
        sub == { k \in DOMAIN KeyChars :
                   IsMapping(d, name \o <<DOT>> \o KeyChars[k]) }
    IN  [ k \in (DOMAIN own) \cup sub |->
            IF k \in sub THEN Table(d, name \o <<DOT>> \o KeyChars[k])
            ELSE own[k] ]

\* Model.tables, lines 99-101: data = data[k] for each k in keys; FALSE is
\* the KeyError of a segment the mapping does not hold
RECURSIVE Walk(_, _, _)
Walk(d, keys, k) ==
    IF k > Len(keys) THEN TRUE
    ELSE IF IsMapping(d, Join(SubSeq(keys, 1, k), DOT))
         THEN Walk(d, keys, k + 1)
         ELSE FALSE

\* one turn of the loop of Model.tables on `path`
TablesIter(d, st, path) ==
    IF Walk(d, Split(path, DOT), 1)
    THEN [st EXCEPT !.tables = DictSet(st.tables, path)]
    ELSE [st EXCEPT !.raised = "KeyError"]

----------------------------------------------------------------------------
(* RGBA, Arc, Node                                                         *)

ColourKeys == {"r", "g", "b", "a"}
Black == [r |-> 0, g |-> 0, b |-> 0, a |-> 255]

\* RGBA(**v) raises TypeError unless v holds r, g, b and at most a besides
RGBAOk(v) == {"r", "g", "b"} \subseteq DOMAIN v /\ DOMAIN v \subseteq ColourKeys
RGBA(v) == [r |-> v.r, g |-> v.g, b |-> v.b, a |-> Get(v, "a", 255)]

ColourAttrs == {"color", "fill", "stroke"}

\* {attr: RGBA(**table[attr]) for attr in (...) if attr in table} raises
ColoursRaise(table) ==
    \E attr \in ColourAttrs : attr \in DOMAIN table /\ ~RGBAOk(table[attr])

Colour(table, attr) ==
    IF attr \in DOMAIN table THEN RGBA(table[attr]) ELSE Black

\* Node.rank with the segments counted in place of the dots
rank_Segments(name) == Len(Split(name, DOT))

\* Node.rank
rank(name) == Count(name, DOT)

\* Model.is_arc looking for the one key the Arc is built from
is_arc_TargetOnly(table) == "target" \in DOMAIN table

\* Model.is_arc
is_arc(table) == (DOMAIN table) \cap {"source", "target"} # {}

\* lines 120-125: every ancestor prefix that is a key of tables is
\* assigned in turn, the longest first; the last assignment stands
RECURSIVE ParentLoop(_, _, _, _)
ParentLoop(paths, gen, tbls, parent) ==
    IF gen >= Len(paths) THEN parent
    ELSE LET last == Join(SubSeq(paths, 1, Len(paths) - gen), DOT)
         IN  ParentLoop(paths, gen + 1, tbls,
                        IF Contains(tbls, last) THEN last ELSE parent)

\* Node(name, **kwargs) raises TypeError when the table has a `name` key
NodeRaises(table) == ColoursRaise(table) \/ "name" \in DOMAIN table

\* lines 116-125 and Node.__post_init__: the Node of a node table
NodeOf(name, table, tbls) ==
    [ name   |-> name,
      label  |-> IF Get(table, "label", None) \in {None, <<>>} THEN name
                 ELSE table.label,
      weight |-> Get(table, "weight", 1),
      arcs   |-> Get(table, "arcs", ListOf(<<>>)),
      parent |-> IF Contains(name, DOT)
                 THEN ParentLoop(Split(name, DOT), 1, tbls,
                                 Get(table, "parent", None))
                 ELSE Get(table, "parent", None),
      color  |-> Colour(table, "color"),
      fill   |-> Colour(table, "fill"),
      stroke |-> Colour(table, "stroke") ]

\* the Arc of an arc table, its label defaulting to the whole path
ArcOf_FullNameLabel(name, table) ==
    [ label  |-> Get(table, "label", name),
      node   |-> IF RPartition(name, DOT)[1] = <<>> THEN None
                 ELSE RPartition(name, DOT)[1],
      target |-> Get(table, "target", None),
      source |-> None,
      weight |-> Get(table, "weight", 1),
      color  |-> Colour(table, "color"),
      fill   |-> Colour(table, "fill"),
      stroke |-> Colour(table, "stroke") ]

\* lines 130-138: the Arc of an arc table
ArcOf(name, table) ==
    LET part == RPartition(name, DOT)
    IN  [ label  |-> Get(table, "label", part[3]),
          node   |-> IF part[1] = <<>> THEN None ELSE part[1],
          target |-> Get(table, "target", None),
          source |-> None,
          weight |-> Get(table, "weight", 1),
          color  |-> Colour(table, "color"),
          fill   |-> Colour(table, "fill"),
          stroke |-> Colour(table, "stroke") ]

\* the node map, a dict in insertion order
Names(nodes) == [k \in 1..Len(nodes) |-> nodes[k].name]
Has(nodes, name) == \E k \in 1..Len(nodes) : nodes[k].name = name
At(nodes, name) == nodes[CHOOSE k \in 1..Len(nodes) : nodes[k].name = name]
Put(nodes, node) ==
    IF Has(nodes, node.name)
    THEN [k \in 1..Len(nodes) |->
            IF nodes[k].name = node.name THEN node ELSE nodes[k]]
    ELSE Append(nodes, node)

\* the first loop with the ancestors looked up among the Nodes built so far
NodesIter_SeenSoFar(d, st, name) ==
    LET table == Table(d, name)
    IN  IF is_arc(table) THEN [st EXCEPT !.arcs = DictSet(st.arcs, name)]
        ELSE IF NodeRaises(table) THEN [st EXCEPT !.raised = "TypeError"]
        ELSE [st EXCEPT !.rv = Put(st.rv, NodeOf(name, table, Names(st.rv)))]

\* one turn of the first loop of Model.nodes, lines 111-127
NodesIter(d, st, name) ==
    LET table == Table(d, name)
    IN  IF is_arc(table) THEN [st EXCEPT !.arcs = DictSet(st.arcs, name)]
        ELSE IF NodeRaises(table) THEN [st EXCEPT !.raised = "TypeError"]
        ELSE [st EXCEPT !.rv = Put(st.rv, NodeOf(name, table, st.tables))]

\* one turn of the second loop of Model.nodes, lines 129-150
ArcsIter(d, st, name) ==
    LET table == Table(d, name)
        parent == RPartition(name, DOT)[1]
    IN  IF ColoursRaise(table) THEN [st EXCEPT !.raised = "TypeError"]
        ELSE IF ~Has(st.rv, parent)
        THEN [st EXCEPT !.err = Append(st.err,
                 [kind |-> "No Node", parent |-> parent, arc |-> name])]
        ELSE IF ~At(st.rv, parent).arcs.list
        THEN [st EXCEPT !.err = Append(st.err,
                 [kind |-> "expects a Node", parent |-> parent, arc |-> name])]
        ELSE [st EXCEPT !.rv =
                 [k \in 1..Len(st.rv) |->
                    IF st.rv[k].name = parent
                    THEN [st.rv[k] EXCEPT !.arcs.items = Append(@, ArcOf(name, table))]
                    ELSE st.rv[k]]]

\* the state of a build that has not begun
Fresh == [tables |-> <<>>, rv |-> <<>>, arcs |-> <<>>, err |-> <<>>,
          raised |-> "none"]

\* a loop to its end, or to the turn that raises
RECURSIVE TablesLoop(_, _, _, _)
TablesLoop(d, st, txt, k) ==
    IF k > Len(txt) \/ st.raised # "none" THEN st
    ELSE TablesLoop(d, TablesIter(d, st, txt[k]), txt, k + 1)

RECURSIVE NodesLoop(_, _, _)
NodesLoop(d, st, k) ==
    IF k > Len(st.tables) \/ st.raised # "none" THEN st
    ELSE NodesLoop(d, NodesIter(d, st, st.tables[k]), k + 1)

RECURSIVE ArcsLoop(_, _, _)
ArcsLoop(d, st, k) ==
    IF k > Len(st.arcs) \/ st.raised # "none" THEN st
    ELSE ArcsLoop(d, ArcsIter(d, st, st.arcs[k]), k + 1)

\* Model.nodes of the document d with the headers txt, in one piece
Nodes(txt, d) == ArcsLoop(d, NodesLoop(d, TablesLoop(d, Fresh, txt, 1), 1), 1)

----------------------------------------------------------------------------
(* children, subgraphs and the two writers                                 *)

\* Model.children without the test k != name
children_OrSelf(nodes, name) ==
    SelectSeq(Names(nodes), LAMBDA k : StartsWith(k, name))

\* Model.children: the keys of the node map that start with `name`
children(nodes, name) ==
    SelectSeq(Names(nodes), LAMBDA k : k # name /\ StartsWith(k, name))

\* [v for v in self.nodes.values() if not v.parent]
Roots(nodes) ==
    Names(SelectSeq(nodes, LAMBDA v : v.parent = None \/ v.parent = <<>>))

\* Model.subgraphs: the names yielded, None for the sentinel
RECURSIVE subgraphs(_, _)
RECURSIVE SubgraphsFrom(_, _, _)
subgraphs(nodes, parents) ==
    SubgraphsFrom(nodes, IF parents = <<>> THEN Roots(nodes) ELSE parents, 1)
SubgraphsFrom(nodes, parents, k) ==
    IF k > Len(parents) THEN <<>>
    ELSE LET kids == children(nodes, parents[k])
         IN  <<parents[k]>>
             \o (IF kids # <<>> THEN subgraphs(nodes, kids) \o <<None>> ELSE <<>>)
             \o SubgraphsFrom(nodes, parents, k + 1)

\* "#{c.r:02x}{c.g:02x}{c.b:02x}" and the same with {c.a:02x} after it
Hex(c, alpha) == IF alpha THEN <<c.r, c.g, c.b, c.a>> ELSE <<c.r, c.g, c.b>>

NoAttrs == [weight |-> 0, color |-> <<>>, fontcolor |-> <<>>, fillcolor |-> <<>>]
\* the attributes of a statement: x is a Node or an Arc; sa, ca, fa say
\* which of the three colours are written with their alpha
Attrs(x, sa, ca, fa) ==
    [ weight    |-> x.weight,
      color     |-> Hex(x.stroke, sa),
      fontcolor |-> Hex(x.color, ca),
      fillcolor |-> Hex(x.fill, fa) ]

\* one line of output
Stmt(kind, a, b, label, attrs) ==
    [kind |-> kind, a |-> a, b |-> b, label |-> label, attrs |-> attrs]
Plain(kind) == Stmt(kind, <<>>, <<>>, <<>>, NoAttrs)
ArcStyle(directed) == IF directed THEN "->" ELSE "--"
GraphLine(directed) == Plain(IF directed THEN "digraph" ELSE "graph")

\* the edge statements of one Node's arcs, lines 218-228 and 265-275, added
\* to out = [lines, raised] until a lookup raises
RECURSIVE ArcEdges(_, _, _, _, _, _)
ArcEdges(nodes, node, k, directed, alpha, out) ==
    IF out.raised # "none" THEN out
    ELSE IF ~node.arcs.list THEN [out EXCEPT !.raised = "TypeError"]
    ELSE IF k > Len(node.arcs.items) THEN out
    ELSE LET arc == node.arcs.items[k]
         IN  IF "target" \notin DOMAIN arc
             THEN [out EXCEPT !.raised = "AttributeError"]
             ELSE IF ~Has(nodes, arc.target)
             THEN [out EXCEPT !.raised = "KeyError"]
             ELSE ArcEdges(nodes, node, k + 1, directed, alpha,
                     [out EXCEPT !.lines = Append(@,
                         Stmt("edge", node.name, arc.target, arc.label,
                              Attrs(arc, alpha, alpha, alpha))
                         @@ [style |-> ArcStyle(directed)])])

\* the lines of to_cluster with a cluster opened only for a Node that is
\* the parent of some Node
RECURSIVE ClusterLines_OpensOnParent(_, _, _)
ClusterLines_OpensOnParent(nodes, items, k) ==
    IF k > Len(items) THEN <<>>
    ELSE LET name == items[k]
         IN  (IF name = None THEN <<Plain("blank"), Plain("close")>>
              ELSE IF \E j \in 1..Len(nodes) : nodes[j].parent = name
              THEN << Plain("blank"),
                      Stmt("subgraph", name, <<>>, <<>>, NoAttrs),
                      Stmt("label", <<>>, <<>>, At(nodes, name).label, NoAttrs),
                      Stmt("weight", <<>>, <<>>, <<>>,
                           [NoAttrs EXCEPT !.weight = At(nodes, name).weight]),
                      Plain("blank") >>
              ELSE << Stmt("vertex", name, <<>>, At(nodes, name).label,
                           Attrs(At(nodes, name), TRUE, FALSE, FALSE)) >>)
             \o ClusterLines_OpensOnParent(nodes, items, k + 1)

\* the lines of to_cluster for the items subgraphs yields, lines 190-211
RECURSIVE ClusterLines(_, _, _)
ClusterLines(nodes, items, k) ==
    IF k > Len(items) THEN <<>>
    ELSE LET name == items[k]
         IN  (IF name = None THEN <<Plain("blank"), Plain("close")>>
              ELSE IF children(nodes, name) # <<>>
              THEN << Plain("blank"),
                      Stmt("subgraph", name, <<>>, <<>>, NoAttrs),
                      Stmt("label", <<>>, <<>>, At(nodes, name).label, NoAttrs),
                      Stmt("weight", <<>>, <<>>, <<>>,
                           [NoAttrs EXCEPT !.weight = At(nodes, name).weight]),
                      Plain("blank") >>
              ELSE << Stmt("vertex", name, <<>>, At(nodes, name).label,
                           Attrs(At(nodes, name), TRUE, FALSE, FALSE)) >>)
             \o ClusterLines(nodes, items, k + 1)

\* for node in self.nodes.values(): for arc in node.arcs, lines 216-228
RECURSIVE ClusterArcs(_, _, _, _)
ClusterArcs(nodes, k, directed, out) ==
    IF k > Len(nodes) \/ out.raised # "none" THEN out
    ELSE ClusterArcs(nodes, k + 1, directed,
                     ArcEdges(nodes, nodes[k], 1, directed, FALSE, out))

\* Close: the lines after the last loop
Closing(out) ==
    IF out.raised # "none" THEN out
    ELSE [out EXCEPT !.lines = @ \o <<Plain("blank"), Plain("close")>>]

\* Model.to_cluster: what the generator yields, and how it ends
to_cluster(nodes, directed) ==
    Closing(ClusterArcs(nodes, 1, directed,
        [ lines  |-> <<GraphLine(directed), Plain("label")>>
                     \o ClusterLines(nodes, subgraphs(nodes, <<>>), 1)
                     \o <<Plain("blank")>>,
          raised |-> "none" ]))

\* the sketch edges of a Node, lines 251-262: to each of children(name)
\* whose rank is ranks[0], the least rank among them
Sketches(nodes, node, directed) ==
    LET kids == children(nodes, node.name)
        least(c) == \A k \in 1..Len(kids) : rank(c) <= rank(kids[k])
        at == SelectSeq(kids, least)
    IN  [k \in 1..Len(at) |->
            Stmt("edge", node.name, at[k], <<".", ".", ".">>,
                 Attrs(node, TRUE, TRUE, TRUE))
            @@ [style |-> ArcStyle(directed)]]

\* the loop of to_dot over the Nodes, lines 239-276
RECURSIVE DotNodes(_, _, _, _)
DotNodes(nodes, k, directed, out) ==
    IF k > Len(nodes) \/ out.raised # "none" THEN out
    ELSE LET node == nodes[k]
             head == [out EXCEPT !.lines = @
                        \o << Stmt("vertex", node.name, <<>>, node.label,
                                   Attrs(node, TRUE, TRUE, TRUE)) >>
                        \o Sketches(nodes, node, directed)]
             body == ArcEdges(nodes, node, 1, directed, TRUE, head)
         IN  DotNodes(nodes, k + 1, directed,
                IF body.raised # "none" THEN body
                ELSE [body EXCEPT !.lines = Append(@, Plain("blank"))])

\* Model.to_dot: what the generator yields, and how it ends
to_dot(nodes, directed) ==
    Closing(DotNodes(nodes, 1, directed,
        [ lines  |-> <<GraphLine(directed), Plain("blank")>>,
          raised |-> "none" ]))

----------------------------------------------------------------------------
(* functools.cache around Model.nodes                                      *)

\* no second Model has been loaded
NoModel == [loaded |-> FALSE]

\* the cache after the wrapped function returned value for the Model key
Stored(c, key, value) == [k \in (DOMAIN c) \cup {key} |->
                            IF k = key THEN value ELSE c[k]]

\* the nodes property with the wrapped function called on every read
NodesProperty_Uncached(c, key, txt, d) ==
    LET st == Nodes(txt, d)
    IN  [cache |-> c, rv |-> st.rv, err |-> st.err, raised |-> st.raised]

\* lines 105-107, model.nodes: the cached value of this Model when there
\* is one, and no line of the function runs; else the function's value,
\* kept when it returns
NodesProperty(c, key, txt, d) ==
    IF key \in DOMAIN c
    THEN [cache |-> c, rv |-> c[key], err |-> <<>>, raised |-> "none"]
    ELSE LET st == Nodes(txt, d)
         IN  [cache  |-> IF st.raised = "none" THEN Stored(c, key, st.rv)
                         ELSE c,
              rv |-> st.rv, err |-> st.err, raised |-> st.raised]

----------------------------------------------------------------------------
(* The program: main builds the node map, then prints a writer's lines     *)

\* main starts on a document of docs
InitOn(docs) ==
    /\ \E doc \in docs :
          /\ text = [k \in 1..Len(doc) |-> doc[k].path]
          /\ data = [p \in {doc[k].path : k \in {j \in 1..Len(doc) : doc[j].real}}
                       |-> (CHOOSE h \in {doc[k] : k \in 1..Len(doc)} : h.path = p).own]
    /\ pc = "tables"
    /\ i = 1
    /\ tables = <<>>
    /\ rv = <<>>
    /\ arcs = <<>>
    /\ err = <<>>
    /\ raised = "none"
    /\ writer = "none"
    /\ stdout = <<>>
    /\ cache = EmptyTable
    /\ reads = 0
    /\ peer = NoModel
    /\ stack = <<>>
    /\ yielded = <<>>
    /\ digraph = TRUE

Init == InitOn(Docs)

\* the build so far, and its next state
Cur == [tables |-> tables, rv |-> rv, arcs |-> arcs, err |-> err,
        raised |-> raised]
Becomes(st) ==
    /\ tables' = st.tables
    /\ rv' = st.rv
    /\ arcs' = st.arcs
    /\ err' = st.err
    /\ raised' = st.raised
    /\ i' = IF st.raised # "none" THEN i ELSE i + 1
    /\ UNCHANGED <<text, data, pc, writer, stdout, cacheVars, walkVars>>

\* for path in self.table_finder.findall(self.text)
TablesStep ==
    /\ pc = "tables"
    /\ raised = "none"
    /\ i <= Len(text)
    /\ Becomes(TablesIter(data, Cur, text[i]))

TablesReturn ==
    /\ pc = "tables"
    /\ raised = "none"
    /\ i > Len(text)
    /\ pc' = "nodes"
    /\ i' = 1
    /\ UNCHANGED <<text, data, tables, rv, arcs, err, raised, writer, stdout,
                   cacheVars, walkVars>>

\* for name, table in self.tables.items()
NodesStep ==
    /\ pc = "nodes"
    /\ raised = "none"
    /\ i <= Len(tables)
    /\ Becomes(NodesIter(data, Cur, tables[i]))

NodesDone ==
    /\ pc = "nodes"
    /\ raised = "none"
    /\ i > Len(tables)
    /\ pc' = "arcs"
    /\ i' = 1
    /\ UNCHANGED <<text, data, tables, rv, arcs, err, raised, writer, stdout,
                   cacheVars, walkVars>>

\* for name, table in arcs.items()
ArcsStep ==
    /\ pc = "arcs"
    /\ raised = "none"
    /\ i <= Len(arcs)
    /\ Becomes(ArcsIter(data, Cur, arcs[i]))

\* return rv, which functools.cache keeps for this Model
NodesReturn ==
    /\ pc = "arcs"
    /\ raised = "none"
    /\ i > Len(arcs)
    /\ pc' = "built"
    /\ i' = 1
    /\ cache' = Stored(cache, "self", rv)
    /\ UNCHANGED <<text, data, tables, rv, arcs, err, raised, writer, stdout,
                   reads, peer, walkVars>>

\* print(*list(writer), sep="\n", file=sys.stdout): nothing is printed when
\* the writer raises
Prints(w, out) ==
    /\ writer' = w
    /\ raised' = out.raised
    /\ pc' = IF out.raised # "none" THEN pc ELSE "done"
    /\ stdout' = IF out.raised # "none" THEN <<>> ELSE out.lines
    /\ UNCHANGED <<text, data, i, tables, rv, arcs, err, cacheVars, walkVars>>

ToDot ==
    /\ pc = "built"
    /\ writer = "none"
    /\ \E directed \in BOOLEAN : Prints("to_dot", to_dot(rv, directed))

ToCluster ==
    /\ pc = "built"
    /\ writer = "none"
    /\ \E directed \in BOOLEAN : Prints("to_cluster", to_cluster(rv, directed))

Next ==
    \/ TablesStep
    \/ TablesReturn
    \/ NodesStep
    \/ NodesDone
    \/ ArcsStep
    \/ NodesReturn
    \/ ToDot
    \/ ToCluster

Spec == Init /\ [][Next]_vars

\* the same program on the documents of OrderDocs
InitOrder == InitOn(OrderDocs)
SpecOrder == InitOrder /\ [][Next]_vars

----------------------------------------------------------------------------
(* Reading model.nodes again, and a second Model                           *)

\* how often a Model's nodes are read again
MaxReads == 2
\* the longest text of the Model that is read again
MaxCacheTables == 3

\* tables whose build appends arcs and prints both diagnostics
CacheHeaders ==
    { Header(nA, TRUE, EmptyTable),
      Header(nA, TRUE, [arcs |-> NotAList]),
      Header(nC, TRUE, EmptyTable),
      Header(nAe, TRUE, [target |-> nC]),
      Header(nZe, TRUE, [target |-> nA]) }

CacheDocs == Texts(CacheHeaders, MaxCacheTables)

\* the documents of the second Model
OtherDocs ==
    { << Header(nA, TRUE, EmptyTable), Header(nAe, TRUE, [target |-> nC]) >>,
      << Header(nZe, TRUE, [target |-> nA]) >>,
      << Header(nA, TRUE, EmptyTable), Header(nAB, TRUE, EmptyTable) >> }

\* Model.loads(text) of a document: table_finder's paths and toml's data
DocText(doc) == [k \in 1..Len(doc) |-> doc[k].path]
DocData(doc) ==
    [p \in {doc[k].path : k \in {j \in 1..Len(doc) : doc[j].real}}
       |-> (CHOOSE h \in {doc[k] : k \in 1..Len(doc)} : h.path = p).own]

\* model.nodes is read once more, as the writers and children read it
ReadNodes ==
    /\ pc \in {"built", "done"}
    /\ raised = "none"
    /\ reads < MaxReads
    /\ LET r == NodesProperty(cache, "self", text, data)
       IN  /\ rv' = r.rv
           /\ err' = err \o r.err
           /\ raised' = r.raised
           /\ cache' = r.cache
    /\ reads' = reads + 1
    /\ UNCHANGED <<text, data, pc, i, tables, arcs, writer, stdout, peer,
                   walkVars>>

\* another Model is made from an independent document
OtherLoads ==
    /\ ~peer.loaded
    /\ \E doc \in OtherDocs :
          peer' = [loaded |-> TRUE, text |-> DocText(doc),
                    data |-> DocData(doc), rv |-> <<>>, err |-> <<>>,
                    raised |-> "none", reads |-> 0]
    /\ UNCHANGED <<text, data, pc, i, tables, rv, arcs, err, raised, writer,
                   stdout, cache, reads, walkVars>>

\* the nodes of the other Model are read
OtherReadNodes ==
    /\ peer.loaded
    /\ peer.raised = "none"
    /\ peer.reads < MaxReads
    /\ LET r == NodesProperty(cache, "other", peer.text, peer.data)
       IN  /\ peer' = [peer EXCEPT !.rv = r.rv, !.err = @ \o r.err,
                                     !.raised = r.raised, !.reads = @ + 1]
           /\ cache' = r.cache
    /\ UNCHANGED <<text, data, pc, i, tables, rv, arcs, err, raised, writer,
                   stdout, reads, walkVars>>

NextCache ==
    \/ Next
    \/ ReadNodes
    \/ OtherLoads
    \/ OtherReadNodes

InitCache == InitOn(CacheDocs)
SpecCache == InitCache /\ [][NextCache]_vars

----------------------------------------------------------------------------
(* The cluster writer, one item of subgraphs at a time                     *)

nRawAB == <<"A", "B">>
nAcolor == <<"A", ".", "c", "o", "l", "o", "r">>

\* the longest text walked
MaxWalkTables == 4
\* the most generators suspended in one another that the walk may reach
MaxDepth == 5

\* tables with a name that only starts with another's characters (AB), a
\* colour table with a header of its own, and arcs
WalkHeaders ==
    { Header(nA, TRUE, EmptyTable),
      Header(nRawAB, TRUE, EmptyTable),
      Header(nAB, TRUE, EmptyTable),
      Header(nABC, TRUE, EmptyTable),
      Header(nAcolor, TRUE, [r |-> 10, g |-> 20, b |-> 30]),
      Header(nAe, TRUE, [target |-> nAB]),
      Header(nAe, TRUE, [target |-> nQ]) }

WalkDocs == Texts(WalkHeaders, MaxWalkTables)

\* a call of subgraphs(parents) made for the children of the Node `of`
\* (None: the call of to_cluster), suspended in its loop at parents[k]
Frame(parents, of) == [parents |-> parents, k |-> 1, at |-> "yield", of |-> of]

Top == stack[Len(stack)]
SetTop(f) == [stack EXCEPT ![Len(stack)] = f]

\* to_cluster with the items of subgraphs given: lines 188-230
ClusterOf(nodes, got, directed) ==
    Closing(ClusterArcs(nodes, 1, directed,
        [ lines  |-> <<GraphLine(directed), Plain("label")>>
                     \o ClusterLines(nodes, got, 1)
                     \o <<Plain("blank")>>,
          raised |-> "none" ]))

\* writer = model.to_cluster(...); list(writer) begins: subgraphs() is
\* called with the default parents
ClusterStart ==
    /\ pc = "built"
    /\ writer = "none"
    /\ raised = "none"
    /\ pc' = "cluster"
    /\ writer' = "to_cluster"
    /\ \E directed \in BOOLEAN : digraph' = directed
    /\ stack' = <<Frame(Roots(rv), None)>>
    /\ yielded' = <<>>
    /\ UNCHANGED <<text, data, i, tables, rv, arcs, err, raised, stdout,
                   cacheVars>>

Walking ==
    /\ pc = "cluster"
    /\ raised = "none"
    /\ stack # <<>>

WalkKeeps == UNCHANGED <<text, data, pc, i, tables, rv, arcs, err, raised,
                         writer, stdout, cacheVars, digraph>>

\* yield p
SubgraphsYield ==
    /\ Walking
    /\ Top.at = "yield"
    /\ Top.k <= Len(Top.parents)
    /\ yielded' = Append(yielded, Top.parents[Top.k])
    /\ stack' = SetTop([Top EXCEPT !.at = "kids"])
    /\ WalkKeeps

\* if children: yield from self.subgraphs(children)
SubgraphsRecurse ==
    /\ Walking
    /\ Top.at = "kids"
    /\ children(rv, Top.parents[Top.k]) # <<>>
    /\ Len(stack) < MaxDepth
    /\ stack' = Append(SetTop([Top EXCEPT !.at = "close"]),
                       Frame(children(rv, Top.parents[Top.k]),
                             Top.parents[Top.k]))
    /\ UNCHANGED yielded
    /\ WalkKeeps

\* no children: the loop goes to the next of parents
SubgraphsNext ==
    /\ Walking
    /\ Top.at = "kids"
    /\ children(rv, Top.parents[Top.k]) = <<>>
    /\ stack' = SetTop([Top EXCEPT !.at = "yield", !.k = @ + 1])
    /\ UNCHANGED yielded
    /\ WalkKeeps

\* yield None
SubgraphsClose ==
    /\ Walking
    /\ Top.at = "close"
    /\ yielded' = Append(yielded, None)
    /\ stack' = SetTop([Top EXCEPT !.at = "yield", !.k = @ + 1])
    /\ WalkKeeps

\* the loop over parents is done: the generator returns
SubgraphsReturn ==
    /\ Walking
    /\ Top.at = "yield"
    /\ Top.k > Len(Top.parents)
    /\ stack' = SubSeq(stack, 1, Len(stack) - 1)
    /\ UNCHANGED yielded
    /\ WalkKeeps

\* subgraphs is exhausted: the arcs are written and main prints
ClusterFinish ==
    /\ pc = "cluster"
    /\ raised = "none"
    /\ stack = <<>>
    /\ Prints("to_cluster", ClusterOf(rv, yielded, digraph))

NextWalk ==
    \/ TablesStep
    \/ TablesReturn
    \/ NodesStep
    \/ NodesDone
    \/ ArcsStep
    \/ NodesReturn
    \/ ToDot
    \/ ClusterStart
    \/ SubgraphsYield
    \/ SubgraphsRecurse
    \/ SubgraphsNext
    \/ SubgraphsClose
    \/ SubgraphsReturn
    \/ ClusterFinish

InitWalk == InitOn(WalkDocs)
SpecWalk == InitWalk /\ [][NextWalk]_vars

\* the longest text whose rendering is followed to its end
MaxLiveTables == 3

LiveHeaders ==
    { Header(nA, TRUE, EmptyTable),
      Header(nAB, TRUE, EmptyTable),
      Header(nABC, TRUE, EmptyTable),
      Header(nAe, TRUE, [target |-> nAB]),
      Header(nAe, TRUE, [target |-> nQ]) }

LiveDocs == Texts(LiveHeaders, MaxLiveTables)

\* main is one thread that nothing suspends: while a step is possible,
\* a step is taken
InitLive == InitOn(LiveDocs)
SpecLive == InitLive /\ [][NextWalk]_vars /\ WF_vars(NextWalk)

----------------------------------------------------------------------------
(* What the claims speak of                                                *)

\* Model.nodes has returned its node map
Built == pc \in {"built", "done"}

NameSet(nodes) == {nodes[k].name : k \in 1..Len(nodes)}
SeqSet(seq) == {seq[k] : k \in 1..Len(seq)}

\* the proper dotted prefixes of a name: its leading segments, one at
\* least and not all
Prefixes(name) ==
    LET paths == Split(name, DOT)
    IN  {Join(SubSeq(paths, 1, k), DOT) : k \in 1..(Len(paths) - 1)}

\* the longest proper dotted prefix of name that is in the set, or None
LongestPrefixIn(name, known) ==
    LET found == Prefixes(name) \cap known
    IN  IF found = {} THEN None
        ELSE CHOOSE p \in found : \A q \in found : Len(q) <= Len(p)

\* C1: after Model.nodes is built, the parent of a Node is the longest
\* proper dotted prefix of its name that is a node table, or None: with the
\* node tables A, A.B and A.B.C, nodes["A.B.C"].parent == "A.B",
\* nodes["A.B"].parent == "A" and nodes["A"].parent is None.
C1_ParentIsLongestPrefix ==
    (Built /\ NameSet(rv) = {nA, nAB, nABC}) =>
        /\ At(rv, nABC).parent = LongestPrefixIn(nABC, NameSet(rv))
        /\ At(rv, nABC).parent = nAB
        /\ At(rv, nAB).parent = nA
        /\ At(rv, nA).parent = None

\* C2: in the node map Model.nodes returns, the parent of a Node is None or
\* a key of that node map.
C2_ParentIsANode ==
    Built => \A k \in 1..Len(rv) :
                rv[k].parent # None => rv[k].parent \in NameSet(rv)

\* C3: building the node map never raises, whatever keys and value shapes
\* the tables hold.
C3_NodesNeverRaises ==
    pc \in {"nodes", "arcs"} => raised = "none"

\* the paths of a text that the document resolves, each at its first place
RECURSIVE Resolvable(_, _, _)
Resolvable(d, txt, k) ==
    IF k > Len(txt) THEN <<>>
    ELSE LET rest == Resolvable(d, txt, k + 1)
         IN  IF IsMapping(d, txt[k]) /\ ~Contains(SubSeq(txt, 1, k - 1), txt[k])
             THEN <<txt[k]>> \o rest
             ELSE rest

\* C4: Model.tables never raises; a path with a segment the document lacks
\* is left out, and every resolvable path is returned, in order of first
\* appearance.
C4_TablesOmitsUnresolved ==
    /\ pc = "tables" => raised = "none"
    /\ pc # "tables" => tables = Resolvable(data, text, 1)

\* the owning name of an arc table: its path less the last segment
Owner(name) == RPartition(name, DOT)[1]

\* a document and its text with one table left out
Without(d, name) == [p \in (DOMAIN d) \ {name} |-> d[p]]
TextWithout(txt, name) == SelectSeq(txt, LAMBDA p : p # name)

\* the arc tables whose owning name is no key of the node map
Orphans == {a \in SeqSet(arcs) : Owner(a) \notin NameSet(rv)}

\* C5: an arc table whose owning name is not a key of the node map does not
\* make the build raise, gets exactly one diagnostic, is in no Node's arcs,
\* and leaves the Nodes and the other arcs as they are without that table.
C5_OrphanArcDropped ==
    /\ (pc = "arcs" /\ i <= Len(arcs) /\ arcs[i] \in Orphans) => raised = "none"
    /\ Built => \A a \in Orphans :
          /\ Cardinality({k \in 1..Len(err) : err[k].arc = a}) = 1
          /\ \A k \in 1..Len(rv) :
                ~Contains(rv[k].arcs.items, ArcOf(a, Table(data, a)))
          /\ rv = Nodes(TextWithout(text, a), Without(data, a)).rv

\* an item of a Node's arcs that is an Arc (a list from the document may
\* hold other things)
IsArc(item) == "node" \in DOMAIN item

\* the item is the Arc of the arc table a: owned by the table's literal
\* owner, aimed at its `target`, labelled by its `label` or else its tail
ArcFor(a, item) ==
    /\ IsArc(item)
    /\ item.node = Owner(a)
    /\ item.target = Get(Table(data, a), "target", None)
    /\ item.label = Get(Table(data, a), "label", RPartition(a, DOT)[3])

\* the Arcs of node are those of the arc tables it owns, in discovery order
ArcsInOrder(node) ==
    LET owned == SelectSeq(arcs, LAMBDA a : Owner(a) = node.name)
        got == SelectSeq(node.arcs.items, IsArc)
    IN  /\ Len(got) = Len(owned)
        /\ \A k \in 1..Len(got) : ArcFor(owned[k], got[k])

\* the arc table a has exactly one Arc, in the arcs of its owner
OneArcAtOwner(a) ==
    \A k \in 1..Len(rv) :
        Cardinality({j \in 1..Len(rv[k].arcs.items) :
                        ArcFor(a, rv[k].arcs.items[j])})
          = IF rv[k].name = Owner(a) THEN 1 ELSE 0

\* C6 as claimed: every arc table P.x whose owner P is a declared node
\* table has exactly one Arc, in nodes[P].arcs and nowhere else, with
\* node == P, the table's target and label (or the tail x); the arcs of a
\* Node are in discovery order, and each Arc a of nodes[n] has a.node == n.
C6_OwnedArcAttached ==
    Built =>
        /\ \A a \in SeqSet(arcs) : Owner(a) \in NameSet(rv) => OneArcAtOwner(a)
        /\ \A k \in 1..Len(rv) :
              /\ ArcsInOrder(rv[k])
              /\ \A j \in 1..Len(rv[k].arcs.items) :
                    IsArc(rv[k].arcs.items[j]) =>
                        rv[k].arcs.items[j].node = rv[k].name

\* C6 as amended: the same of every arc table whose owner P is a declared
\* node table with a list for its arcs (the default, or a list under an
\* `arcs` key); when P's `arcs` value is no list, the arc is dropped with
\* one "expects a Node" diagnostic.
C6_OwnedArcAttachedToList ==
    Built =>
        /\ \A a \in SeqSet(arcs) : Owner(a) \in NameSet(rv) =>
              IF At(rv, Owner(a)).arcs.list
              THEN OneArcAtOwner(a)
              ELSE Cardinality({k \in 1..Len(err) :
                      err[k] = [kind |-> "expects a Node",
                                parent |-> Owner(a), arc |-> a]}) = 1
        /\ \A k \in 1..Len(rv) :
              /\ rv[k].arcs.list => ArcsInOrder(rv[k])
              /\ \A j \in 1..Len(rv[k].arcs.items) :
                    IsArc(rv[k].arcs.items[j]) =>
                        rv[k].arcs.items[j].node = rv[k].name

\* A owns the arc tables A.f and A.e, found in that order: its arcs are the
\* Arc labelled L and then the Arc labelled by the tail e
C6_Witness ==
    /\ Built
    /\ Has(rv, nA)
    /\ arcs = <<nAf, nAe>>
    /\ Len(At(rv, nA).arcs.items) = 2
    /\ At(rv, nA).arcs.items[1].label = <<"L">>
    /\ At(rv, nA).arcs.items[2].label = <<"e">>

\* some Arc of the node map has a target that is no key of the map
Unresolved ==
    \E k \in 1..Len(rv) : \E j \in 1..Len(rv[k].arcs.items) :
        /\ IsArc(rv[k].arcs.items[j])
        /\ rv[k].arcs.items[j].target \notin NameSet(rv)

\* C7: when some Arc's target is no known Node, to_dot and to_cluster still
\* produce their output: every vertex statement, and the edge of every arc
\* whose target does resolve.
C7_RenderSkipsUnresolved ==
    (writer # "none" /\ Unresolved) =>
        /\ raised = "none"
        /\ \A k \in 1..Len(rv) :
              (writer = "to_dot" \/ children(rv, rv[k].name) = <<>>) =>
                  \E n \in 1..Len(stdout) :
                      stdout[n].kind = "vertex" /\ stdout[n].a = rv[k].name
        /\ \A k \in 1..Len(rv) : \A j \in 1..Len(rv[k].arcs.items) :
              LET arc == rv[k].arcs.items[j]
              IN  (IsArc(arc) /\ arc.target \in NameSet(rv)) =>
                      \E n \in 1..Len(stdout) :
                          /\ stdout[n].kind = "edge"
                          /\ stdout[n].a = rv[k].name
                          /\ stdout[n].b = arc.target
                          /\ stdout[n].label = arc.label

\* C8: when Model.nodes returns, the parent of every Node is the parent it
\* has for every other order of the same table headers in the text.
C8_ParentOrderIndependent ==
    (pc = "built" /\ writer = "none") => \A f \in Permutations(1..Len(text)) :
        LET other == Nodes([k \in 1..Len(text) |-> text[f[k]]], data)
        IN  /\ other.raised = "none"
            /\ NameSet(other.rv) = NameSet(rv)
            /\ \A n \in NameSet(rv) : At(other.rv, n).parent = At(rv, n).parent

\* the text A, C.B.C, C, A.B.C: C comes after C.B.C, and C.B and A.B are
\* not declared; the parent of C.B.C is C and that of A.B.C is A
C8_Witness ==
    /\ Built
    /\ text = <<nA, nCBC, nC, nABC>>
    /\ NameSet(rv) = {nA, nCBC, nC, nABC}
    /\ At(rv, nCBC).parent = nC
    /\ At(rv, nABC).parent = nA

\* C9: a table is an arc exactly when its keys hold `source` or `target`:
\* such a table is never a Node; its Arc takes the table's `target` (None
\* when it has none) and nothing from `source`.
C9_ArcIffSourceOrTarget ==
    Built =>
        /\ \A name \in SeqSet(tables) :
              LET keyed == {"source", "target"} \cap DOMAIN Table(data, name) # {}
              IN  /\ name \in SeqSet(arcs) <=> keyed
                  /\ name \in NameSet(rv) <=> ~keyed
        /\ \A k \in 1..Len(rv) : \A j \in 1..Len(rv[k].arcs.items) :
              IsArc(rv[k].arcs.items[j]) => rv[k].arcs.items[j].source = None
        /\ \A a \in SeqSet(arcs) :
              (Owner(a) \in NameSet(rv) /\ At(rv, Owner(a)).arcs.list) =>
                  \E j \in 1..Len(At(rv, Owner(a)).arcs.items) :
                      LET arc == At(rv, Owner(a)).arcs.items[j]
                      IN  /\ IsArc(arc)
                          /\ arc.label = Get(Table(data, a), "label",
                                             RPartition(a, DOT)[3])
                          /\ arc.target =
                               IF "target" \in DOMAIN Table(data, a)
                               THEN Table(data, a).target ELSE None

\* the arc table A.e has `source` and no `target`: it is no Node, and its
\* Arc on A has no target
C9_Witness ==
    /\ Built
    /\ nAe \in DOMAIN data
    /\ DOMAIN data[nAe] = {"source"}
    /\ ~Has(rv, nAe)
    /\ Has(rv, nA)
    /\ \E j \in 1..Len(At(rv, nA).arcs.items) :
          /\ IsArc(At(rv, nA).arcs.items[j])
          /\ At(rv, nA).arcs.items[j].target = None

\* C10 as claimed: rank is the number of dots of the name and the depth in
\* the parent tree: 0 for a Node whose parent is None, and 1 + the rank of
\* the parent for any other Node.
C10_RankIsTreeDepth ==
    Built => \A k \in 1..Len(rv) :
        /\ rank(rv[k].name) = Count(rv[k].name, DOT)
        /\ rv[k].parent = None => rank(rv[k].name) = 0
        /\ rv[k].parent # None => rank(rv[k].name) = 1 + rank(rv[k].parent)

\* C10 as amended: rank is the number of dots of the name, one less than
\* its number of segments, and not the depth in the parent tree: a Node
\* whose parent is a dotted prefix of its name has rank >= 1 + the rank of
\* that parent, with equality exactly when the parent is the name less its
\* last segment.
C10_RankCountsDots ==
    Built => \A k \in 1..Len(rv) :
        /\ rank(rv[k].name) + 1 = Len(Split(rv[k].name, DOT))
        /\ rv[k].parent \in Prefixes(rv[k].name) =>
              /\ rank(rv[k].name) >= 1 + rank(rv[k].parent)
              /\ rank(rv[k].name) = 1 + rank(rv[k].parent)
                    <=> rv[k].parent = Owner(rv[k].name)

\* C.B.C has rank 2 and its parent C has rank 0: C.B is not declared
C10_Witness ==
    /\ Built
    /\ Has(rv, nC)
    /\ Has(rv, nCBC)
    /\ At(rv, nCBC).parent = nC
    /\ rank(nCBC) = 2
    /\ rank(nC) = 0

\* C11: however often Model.nodes is read on one model it returns the same
\* structure, the one the build returned: the same Nodes in the same order
\* with the same parents and arcs, no arc appended again and no diagnostic
\* printed again; and the reads of a model of another document change
\* nothing of it, nor it of them.
C11_NodesReadIdempotent ==
    /\ "self" \in DOMAIN cache =>
          LET st == Nodes(text, data)
          IN  /\ rv = st.rv
              /\ err = st.err
              /\ cache["self"] = st.rv
    /\ "other" \in DOMAIN cache =>
          LET st == Nodes(peer.text, peer.data)
          IN  /\ peer.rv = st.rv
              /\ peer.err = st.err
              /\ cache["other"] = st.rv

\* both models were read again and again, the first with an arc appended
\* and a diagnostic printed, the other with other Nodes
C11_Witness ==
    /\ reads >= 2
    /\ peer.loaded
    /\ peer.reads >= 2
    /\ peer.rv # rv
    /\ err # <<>>
    /\ \E k \in 1..Len(rv) : rv[k].arcs.list /\ rv[k].arcs.items # <<>>

\* the places of x in a sequence
Places(seq, x) == {k \in 1..Len(seq) : seq[k] = x}

\* the Nodes of the parent tree below p: those whose parent is p
KidsOf(nodes, p) == {n \in NameSet(nodes) : At(nodes, n).parent = p}

\* in a walk, the clusters open after place k: the Nodes with children
\* yielded so far, less the sentinels
OpenAt(nodes, seq, k) ==
    Cardinality({j \in 1..k : seq[j] # None /\ KidsOf(nodes, seq[j]) # {}})
    - Cardinality({j \in 1..k : seq[j] = None})

\* the sentinel that closes the Node yielded at place k: the first one
\* after k that leaves fewer clusters open than there were before k
ClosesAt(nodes, seq, k) ==
    {j \in (k + 1)..Len(seq) :
        /\ seq[j] = None
        /\ OpenAt(nodes, seq, j) + 1 = OpenAt(nodes, seq, k)
        /\ \A m \in (k + 1)..(j - 1) :
              OpenAt(nodes, seq, m) >= OpenAt(nodes, seq, k)}

\* C12: subgraphs() with the default roots walks the parent tree depth
\* first, parents before children: every Node of the node map is yielded
\* exactly once, a Node with a parent after that parent and before the
\* sentinel that closes it, and there is exactly one sentinel for each Node
\* that has children.
C12_SubgraphsPreOrder ==
    Built =>
        LET seq == subgraphs(rv, <<>>)
        IN  /\ \A n \in NameSet(rv) : Cardinality(Places(seq, n)) = 1
            /\ \A n \in NameSet(rv) :
                  At(rv, n).parent # None =>
                      \E k \in Places(seq, At(rv, n).parent) :
                      \E j \in ClosesAt(rv, seq, k) :
                      \E m \in Places(seq, n) : k < m /\ m < j
            /\ Cardinality(Places(seq, None))
                  = Cardinality({n \in NameSet(rv) : KidsOf(rv, n) # {}})

\* the vertex and edge statements among the lines of a writer
Statements(lines) == SelectSeq(lines, LAMBDA l : l.kind \in {"vertex", "edge"})

\* the Arcs among a Node's arcs, in arcs order
ArcsOf(node) ==
    IF node.arcs.list THEN SelectSeq(node.arcs.items, IsArc) ELSE <<>>

\* an edge statement with every colour written with its alpha
EdgeOf(a, b, label, x, directed) ==
    [ kind |-> "edge", a |-> a, b |-> b, label |-> label,
      style |-> IF directed THEN "->" ELSE "--",
      attrs |-> [ weight |-> x.weight,
                  color |-> <<x.stroke.r, x.stroke.g, x.stroke.b, x.stroke.a>>,
                  fontcolor |-> <<x.color.r, x.color.g, x.color.b, x.color.a>>,
                  fillcolor |-> <<x.fill.r, x.fill.g, x.fill.b, x.fill.a>> ] ]

\* what the flat writer is to emit for one Node: its vertex, a sketch edge
\* to each of children(name) of the least rank, an edge for each Arc
FlatOf(nodes, node, directed) ==
    LET kids == children(nodes, node.name)
        ranks == {rank(kids[k]) : k \in 1..Len(kids)}
        near == SelectSeq(kids, LAMBDA c : \A r \in ranks : rank(c) <= r)
        own == ArcsOf(node)
    IN  << [ kind |-> "vertex", a |-> node.name, b |-> <<>>,
             label |-> node.label,
             attrs |-> EdgeOf(<<>>, <<>>, <<>>, node, directed).attrs ] >>
        \o [k \in 1..Len(near) |->
              EdgeOf(node.name, near[k], <<".", ".", ".">>, node, directed)]
        \o [k \in 1..Len(own) |->
              EdgeOf(node.name, own[k].target, own[k].label, own[k], directed)]

RECURSIVE FlatFrom(_, _, _)
FlatFrom(nodes, k, directed) ==
    IF k > Len(nodes) THEN <<>>
    ELSE FlatOf(nodes, nodes[k], directed) \o FlatFrom(nodes, k + 1, directed)

\* C13: to_dot emits for each Node, in node-map order, one vertex
\* statement, then a sketch edge labelled "..." to each member of
\* children(name) whose rank is the least among children(name), then one
\* edge for each Arc of the Node in arcs order, and no other vertex or edge
\* statement; two root tables and no arcs give two vertex statements and
\* no edge.
C13_FlatStatements ==
    Built =>
        \A directed \in BOOLEAN :
            Statements(to_dot(rv, directed).lines) = FlatFrom(rv, 1, directed)

\* the edge statements of Arcs among the lines of a writer: the edges
\* that are no sketch edge
ArcEdgesIn(lines) ==
    SelectSeq(lines, LAMBDA l : l.kind = "edge" /\ l.label # <<".", ".", ".">>)

\* C14: for one model and one `directed` flag, the arc edge statements
\* to_cluster emits after its traversal are those to_dot emits, in the
\* same order: the same ends, arrow style, label, weight and colours, the
\* alpha of each colour included.
C14_ClusterArcsAsFlat ==
    Built =>
        \A directed \in BOOLEAN :
            ArcEdgesIn(to_cluster(rv, directed).lines)
                = ArcEdgesIn(to_dot(rv, directed).lines)

\* how many lines of a kind there are
CountKind(lines, kind) == Cardinality({k \in 1..Len(lines) : lines[k].kind = kind})

\* the generators of subgraphs that have yielded a Node with children and
\* not yet the sentinel after it
ToClose ==
    {k \in 1..Len(stack) :
        \/ stack[k].at = "close"
        \/ /\ stack[k].at = "kids"
           /\ children(rv, stack[k].parents[stack[k].k]) # <<>>}

\* C15: in the lines of to_cluster the cluster blocks are balanced: after
\* every item of the traversal the closing lines written for sentinels
\* are no more than the `subgraph cluster_` openings, the clusters still
\* open are those of the calls of subgraphs that have yet to yield their
\* sentinel, innermost last, and when the traversal ends every cluster
\* opened has been closed; names that share only leading characters, such
\* as A and AB, included.
C15_ClustersBalanced ==
    (writer = "to_cluster" /\ pc \in {"cluster", "done"}) =>
        LET lines == ClusterLines(rv, yielded, 1)
            opened == CountKind(lines, "subgraph")
            closed == CountKind(lines, "close")
        IN  /\ closed <= opened
            /\ opened = closed + Cardinality(ToClose)
            /\ \A k \in ToClose : \A j \in 1..(k - 1) : j \in ToClose
            /\ stack = <<>> => opened = closed

\* the traversal is over for A, AB, A.B and more: a cluster inside a
\* cluster was opened and closed, and AB was yielded under A and again
C15_Witness ==
    /\ writer = "to_cluster"
    /\ pc = "done"
    /\ {nA, nRawAB, nAB, nABC} \subseteq NameSet(rv)
    /\ CountKind(stdout, "subgraph") >= 2
    /\ Cardinality(Places(yielded, nRawAB)) >= 2

\* every Arc of every Node has a target that is a key of the node map
Resolves ==
    \A k \in 1..Len(rv) : \A j \in 1..Len(ArcsOf(rv[k])) :
        ArcsOf(rv[k])[j].target \in NameSet(rv)

\* each call of subgraphs but the first was made for the Node its caller
\* is at, on names strictly longer than that Node's
Descends ==
    \A k \in 2..Len(stack) :
        /\ stack[k].of = stack[k - 1].parents[stack[k - 1].k]
        /\ \A j \in 1..Len(stack[k].parents) :
              Len(stack[k].parents[j]) > Len(stack[k].of)

\* C16: on a node map whose arc targets all resolve, consuming
\* subgraphs(), to_cluster() or to_dot() to the end terminates: every
\* recursive call of subgraphs is made on children(p.name), names strictly
\* longer than p.name, so the calls never go deeper than there are Nodes
\* and the writer main chose ends with its output printed.
C16_RenderTerminates ==
    /\ [](Descends /\ Len(stack) <= Len(rv) + 1 /\ Len(stack) < MaxDepth)
    /\ ((pc = "built" /\ Resolves) ~> (pc = "done"))

\* the cluster writer ended on a node map with a resolved Arc, after
\* subgraphs had recursed and yielded more items than there are Nodes
C16_Witness ==
    /\ pc = "done"
    /\ writer = "to_cluster"
    /\ Resolves
    /\ \E k \in 1..Len(rv) : ArcsOf(rv[k]) # <<>>
    /\ Len(yielded) > Len(rv)

\* a path whose last segment is color, fill or stroke, under a declared
\* table: the header of a colour attribute
IsColourTable(p) ==
    /\ RPartition(p, DOT)[3] \in {KeyChars[k] : k \in DOMAIN KeyChars}
    /\ Contains(tables, RPartition(p, DOT)[1])

\* C17: a colour sub-table with a header of its own, [A.color] r=10 g=20
\* b=30 under the node table [A], is only an attribute of its owner:
\* nodes["A"].color == RGBA(10, 20, 30, 255), the node map has no Node
\* "A.color", its keys are the declared non-arc table paths that are no
\* colour sub-table, and A gains no child by its colour table.
C17_ColourTableIsAttribute ==
    (pc \in {"built", "cluster", "done"} /\ {nA, nAcolor} \subseteq SeqSet(text)) =>
        /\ At(rv, nA).color = [r |-> 10, g |-> 20, b |-> 30, a |-> 255]
        /\ nAcolor \notin NameSet(rv)
        /\ NameSet(rv) = {p \in SeqSet(tables) :
                            ~is_arc(Table(data, p)) /\ ~IsColourTable(p)}
        /\ ~Contains(children(rv, nA), nAcolor)

====
